---------------------------- MODULE Spec2Model ----------------------------
(***************************************************************************)
(* Model of exutil.py: is_similar, count_significant_digits,               *)
(* search_excl_val and get_excl_sheet_vals.                                *)
(*                                                                         *)
(* A Python str is a sequence of one-character strings.  A Python value is *)
(* a record [type, s, n, t]: s is the text of a str, n/t are the integer   *)
(* payload of the other types (see the constructors below).                *)
(***************************************************************************)
EXTENDS Integers, Sequences, FiniteSets, TLC

VARIABLES
    sheet,                    \* the worksheet: sheet[row][column] is a cell value
    pc,                       \* position of the running call
    search_targets,           \* search_excl_val argument
    threshold,                \* similarity threshold, in hundredths
    return_first_hit,         \* search_excl_val argument
    return_all_vals,          \* search_excl_val argument
    target_i,                 \* index of search_val_i in search_targets
    cell_i,                   \* row-major index of cell_iii in the current pass
    equal_targets,            \* the equal bucket: sequence of cell indexes
    similar_target_hits,      \* the similar bucket: sequence of cell indexes
    cells_read,               \* number of cell values the call has read
    target,                   \* is_similar argument
    test,                     \* is_similar argument
    return_similarrity_score, \* is_similar argument
    number,                   \* count_significant_digits argument
    start_Cord,               \* get_excl_sheet_vals argument
    end_Cord,                 \* get_excl_sheet_vals argument
    result                    \* what the call returned or raised

vars == <<sheet, pc, search_targets, threshold, return_first_hit, return_all_vals,
          target_i, cell_i, equal_targets, similar_target_hits, cells_read,
          target, test, return_similarrity_score, number, start_Cord, end_Cord,
          result>>

searchVars == <<search_targets, return_first_hit, return_all_vals, target_i, cell_i,
                equal_targets, similar_target_hits, cells_read>>
similarVars == <<target, test, return_similarrity_score>>
extractVars == <<start_Cord, end_Cord>>

-----------------------------------------------------------------------------
(* Bounds of the model *)

MaxNumberLen == 6
MaxRow == 2
MaxCol == 2
MaxFilled == 2
MaxTargets == 2
MaxTest == 3

-----------------------------------------------------------------------------
(* Text: Python str as a sequence of characters *)

Digit == <<"0", "1", "2", "3", "4", "5", "6", "7", "8", "9">>

IsDigit(c) == \E i \in 1..10 : Digit[i] = c

DigitValue(c) == (CHOOSE i \in 1..10 : Digit[i] = c) - 1

Repeat(c, k) == [i \in 1..k |-> c]

Max(a, b) == IF a >= b THEN a ELSE b

Min(a, b) == IF a <= b THEN a ELSE b

RECURSIVE Pow10(_)
Pow10(k) == IF k <= 0 THEN 1 ELSE 10 * Pow10(k - 1)

RECURSIVE IntToText(_)
\* str(n) for an int n >= 0
IntToText(k) == IF k < 10 THEN <<Digit[k + 1]>>
                ELSE Append(IntToText(k \div 10), Digit[(k % 10) + 1])

RECURSIVE TextToInt(_)
\* int(s) for a text of digits
TextToInt(s) == IF s = <<>> THEN 0
                ELSE 10 * TextToInt(SubSeq(s, 1, Len(s) - 1)) + DigitValue(s[Len(s)])

\* s.zfill(w), for the %02d and %04d fields of a date
ZFill(s, w) == Repeat("0", w - Len(s)) \o s

\* number of leading / trailing occurrences of c in s
LeadingCount(s, c) ==
    IF \A i \in 1..Len(s) : s[i] = c THEN Len(s)
    ELSE (CHOOSE i \in 1..Len(s) : s[i] # c /\ \A j \in 1..(i - 1) : s[j] = c) - 1

TrailingCount(s, c) ==
    IF \A i \in 1..Len(s) : s[i] = c THEN Len(s)
    ELSE Len(s) - (CHOOSE i \in 1..Len(s) : s[i] # c /\ \A j \in (i + 1)..Len(s) : s[j] = c)

\* s.lstrip(c), s.rstrip(c), s.strip() (the whitespace of the model is " ")
LStrip(s, c) == SubSeq(s, LeadingCount(s, c) + 1, Len(s))

RStrip(s, c) == SubSeq(s, 1, Len(s) - TrailingCount(s, c))

Strip(s) == LStrip(RStrip(s, " "), " ")

\* s.endswith(c), c in s, s.replace(c, '')
EndsWith(s, c) == Len(s) > 0 /\ s[Len(s)] = c

Contains(s, c) == \E i \in 1..Len(s) : s[i] = c

Remove(s, c) == SelectSeq(s, LAMBDA x : x # c)

-----------------------------------------------------------------------------
(* decimal.Decimal, as far as count_significant_digits uses it *)

\* Decimal(s) for s of the form [-]digits[.digits]: sign, coefficient digits
\* without leading zeros, exponent
DecimalFromText(s) ==
    LET neg     == Len(s) > 0 /\ s[1] = "-"
        body    == IF neg THEN SubSeq(s, 2, Len(s)) ELSE s
        dot     == IF Contains(body, ".")
                   THEN CHOOSE i \in 1..Len(body) : body[i] = "."
                   ELSE Len(body) + 1
        intpart == SubSeq(body, 1, dot - 1)
        frac    == SubSeq(body, dot + 1, Len(body))
        coeff   == LStrip(intpart \o frac, "0")
    IN  [sign |-> IF neg THEN 1 ELSE 0,
         int  |-> IF coeff = <<>> THEN <<"0">> ELSE coeff,
         exp  |-> 0 - Len(frac)]

\* Decimal.normalize(): strip the coefficient's trailing zeros; zero becomes 0E0
DecimalNormalize(d) ==
    IF d.int = <<"0">> THEN [sign |-> d.sign, int |-> <<"0">>, exp |-> 0]
    ELSE LET k == TrailingCount(d.int, "0")
         IN  [sign |-> d.sign, int |-> SubSeq(d.int, 1, Len(d.int) - k), exp |-> d.exp + k]

\* Decimal.__str__(): scientific notation when the exponent is positive or the
\* number is below 1E-6
DecimalToText(d) ==
    LET leftdigits == d.exp + Len(d.int)
        dotplace   == IF d.exp <= 0 /\ leftdigits > -6 THEN leftdigits ELSE 1
        intpart    == IF dotplace <= 0 THEN <<"0">>
                      ELSE IF dotplace >= Len(d.int)
                           THEN d.int \o Repeat("0", dotplace - Len(d.int))
                           ELSE SubSeq(d.int, 1, dotplace)
        fracpart   == IF dotplace <= 0 THEN <<".">> \o Repeat("0", 0 - dotplace) \o d.int
                      ELSE IF dotplace >= Len(d.int) THEN <<>>
                           ELSE <<".">> \o SubSeq(d.int, dotplace + 1, Len(d.int))
        e          == leftdigits - dotplace
        exptext    == IF e = 0 THEN <<>>
                      ELSE <<"E", IF e > 0 THEN "+" ELSE "-">>
                           \o IntToText(IF e > 0 THEN e ELSE 0 - e)
    IN  (IF d.sign = 1 THEN <<"-">> ELSE <<>>) \o intpart \o fracpart \o exptext

\* count_significant_digits(number) for a str argument
count_significant_digits(number_str) ==
    LET normalized_str == DecimalToText(DecimalNormalize(DecimalFromText(number_str)))
    IN  IF /\ Contains(number_str, ".")
           /\ ~EndsWith(normalized_str, "0")
           /\ EndsWith(number_str, "0")
        THEN LET trailing_zeros == Len(number_str) - Len(RStrip(number_str, "0"))
             IN  Len(Remove(normalized_str, ".")) + trailing_zeros
        ELSE Len(Remove(Remove(normalized_str, "."), "-"))

-----------------------------------------------------------------------------
(* Python values *)

PyNone == [type |-> "NoneType", s |-> <<>>, n |-> 0, t |-> 0]

PyStr(s) == [type |-> "str", s |-> s, n |-> 0, t |-> 0]

PyInt(k) == [type |-> "int", s |-> <<>>, n |-> k, t |-> 0]

\* the float m * 10^-e, e >= 0
PyFloat(m, e) == [type |-> "float", s |-> <<>>, n |-> m, t |-> e]

\* datetime.date, n = year * 10000 + month * 100 + day
PyDate(ymd) == [type |-> "date", s |-> <<>>, n |-> ymd, t |-> 0]

\* datetime.datetime, t = second of the day
PyDatetime(ymd, sec) == [type |-> "datetime", s |-> <<>>, n |-> ymd, t |-> sec]

\* datetime.time, t = second of the day
PyTime(sec) == [type |-> "time", s |-> <<>>, n |-> 0, t |-> sec]

\* a value of a type search_excl_val has no branch for
PyBytes(s) == [type |-> "bytes", s |-> s, n |-> 0, t |-> 0]

\* isinstance(v, cls): bool of the class hierarchy; datetime is a subclass of date
IsInstance(v, cls) == v.type = cls \/ (v.type = "datetime" /\ cls = "date")

\* isinstance(v, numbers.Number)
IsNumber(v) == v.type \in {"int", "float"}

\* v == w of Python: values of different types are unequal (a date never
\* equals a datetime); 3 == 3.0 holds between int and float
NumEq(m1, e1, m2, e2) == m1 * Pow10(e2) = m2 * Pow10(e1)

PyEq(v, w) ==
    IF IsNumber(v) /\ IsNumber(w) THEN NumEq(v.n, v.t, w.n, w.t)
    ELSE v.type = w.type /\ v.s = w.s /\ v.n = w.n /\ v.t = w.t

Abs(k) == IF k < 0 THEN 0 - k ELSE k

\* repr of a float m * 10^-e: shortest digits, at least one after the point
FloatToText(m, e) ==
    LET digits == IntToText(Abs(m))
        z      == IF m = 0 THEN e ELSE Min(e, TrailingCount(digits, "0"))
        mm     == Abs(m) \div Pow10(z)
        ee     == e - z
        ip     == IntToText(mm \div Pow10(ee))
        fp     == IF ee = 0 THEN <<"0">> ELSE ZFill(IntToText(mm % Pow10(ee)), ee)
    IN  (IF m < 0 THEN <<"-">> ELSE <<>>) \o ip \o <<".">> \o fp

\* str(date): YYYY-MM-DD
DateToText(ymd) ==
    ZFill(IntToText(ymd \div 10000), 4) \o <<"-">>
    \o ZFill(IntToText((ymd \div 100) % 100), 2) \o <<"-">>
    \o ZFill(IntToText(ymd % 100), 2)

\* str(time): HH:MM:SS
TimeToText(sec) ==
    ZFill(IntToText(sec \div 3600), 2) \o <<":">>
    \o ZFill(IntToText((sec \div 60) % 60), 2) \o <<":">>
    \o ZFill(IntToText(sec % 60), 2)

\* str(v)
ToStr(v) ==
    CASE v.type = "str"      -> v.s
      [] v.type = "int"      -> (IF v.n < 0 THEN <<"-">> ELSE <<>>) \o IntToText(Abs(v.n))
      [] v.type = "float"    -> FloatToText(v.n, v.t)
      [] v.type = "date"     -> DateToText(v.n)
      [] v.type = "datetime" -> DateToText(v.n) \o <<" ">> \o TimeToText(v.t)
      [] v.type = "time"     -> TimeToText(v.t)
      [] v.type = "NoneType" -> <<"N", "o", "n", "e">>
      [] OTHER               -> v.s

-----------------------------------------------------------------------------
(* difflib.SequenceMatcher(None, a, b).ratio() *)

RECURSIVE CommonPrefixLen(_, _, _, _, _, _)
\* the largest k with a[i..i+k-1] = b[j..j+k-1], i+k-1 <= ahi, j+k-1 <= bhi
CommonPrefixLen(a, i, ahi, b, j, bhi) ==
    IF i > ahi \/ j > bhi THEN 0
    ELSE IF a[i] # b[j] THEN 0
    ELSE 1 + CommonPrefixLen(a, i + 1, ahi, b, j + 1, bhi)

\* find_longest_match: the longest block, of those the one starting earliest
\* in a, of those the one starting earliest in b; <<i, j, k>>
find_longest_match(a, alo, ahi, b, blo, bhi) ==
    LET blocks == {<<i, j, CommonPrefixLen(a, i, ahi, b, j, bhi)>> :
                       i \in alo..ahi, j \in blo..bhi}
        Better(x, y) == \/ x[3] > y[3]
                        \/ x[3] = y[3] /\ x[1] < y[1]
                        \/ x[3] = y[3] /\ x[1] = y[1] /\ x[2] <= y[2]
    IN  IF blocks = {} THEN <<alo, blo, 0>>
        ELSE CHOOSE x \in blocks : \A y \in blocks : Better(x, y)

RECURSIVE MatchingCount(_, _, _, _, _, _)
\* get_matching_blocks: total size of the blocks found left and right of the
\* longest one, recursively
MatchingCount(a, alo, ahi, b, blo, bhi) ==
    LET m == find_longest_match(a, alo, ahi, b, blo, bhi)
    IN  IF m[3] = 0 THEN 0
        ELSE m[3] + MatchingCount(a, alo, m[1] - 1, b, blo, m[2] - 1)
                  + MatchingCount(a, m[1] + m[3], ahi, b, m[2] + m[3], bhi)

\* ratio() as the fraction <<2 * matches, length>>; 1.0 when both are empty
ratio(a, b) ==
    IF Len(a) + Len(b) = 0 THEN <<1, 1>>
    ELSE <<2 * MatchingCount(a, 1, Len(a), b, 1, Len(b)), Len(a) + Len(b)>>

AtLeast_strict(similarity, thr) == similarity[1] * 100 > thr * similarity[2]

\* similarity >= threshold, the threshold in hundredths
AtLeast(similarity, thr) == similarity[1] * 100 >= thr * similarity[2]

-----------------------------------------------------------------------------
(* is_similar *)

\* the test argument: a list of values, a tuple of values, or one value (one item)
TestList(items) == [list |-> TRUE, tuple |-> FALSE, items |-> items]

TestTuple(items) == [list |-> FALSE, tuple |-> TRUE, items |-> items]

TestOne(v) == [list |-> FALSE, tuple |-> FALSE, items |-> <<v>>]

SimBool(b) == [tag |-> "bool", b |-> b, strs |-> <<>>, scores |-> <<>>]

SimTuple(strs, scores) == [tag |-> "tuple", b |-> TRUE, strs |-> strs, scores |-> scores]

SimNonePair == [tag |-> "(None, None)", b |-> TRUE, strs |-> <<>>, scores |-> <<>>]

SimTypeError == [tag |-> "TypeError", b |-> FALSE, strs |-> <<>>, scores |-> <<>>]

\* the elements of seq that satisfy Keep, in order
RECURSIVE FilterIdx(_, _)
FilterIdx(flags, i) ==
    IF i > Len(flags) THEN <<>>
    ELSE (IF flags[i] THEN <<i>> ELSE <<>>) \o FilterIdx(flags, i + 1)

is_similar(target_, test_, threshold_, return_score) ==
    LET tgt == Strip(ToStr(target_))
    IN  IF test_.list
        THEN LET tst   == [i \in 1..Len(test_.items) |-> Strip(ToStr(test_.items[i]))]
                 sims  == [i \in 1..Len(tst) |-> ratio(tgt, tst[i])]
                 valid == FilterIdx([i \in 1..Len(tst) |-> AtLeast(sims[i], threshold_)], 1)
             IN  IF return_score
                 THEN IF valid # <<>>
                      THEN SimTuple([k \in 1..Len(valid) |-> tst[valid[k]]],
                                    [k \in 1..Len(valid) |-> sims[valid[k]]])
                      ELSE SimNonePair
                 ELSE SimBool(\E i \in 1..Len(tst) : AtLeast(sims[i], threshold_))
        ELSE IF test_.tuple
        THEN SimTypeError
        ELSE LET v == test_.items[1]
             IN  IF v.type = "str" \/ IsNumber(v)
                 THEN LET tst        == Strip(ToStr(v))
                          similarity == ratio(tgt, tst)
                      IN  IF return_score
                          THEN IF AtLeast(similarity, threshold_)
                               THEN SimTuple(<<tst>>, <<similarity>>)
                               ELSE SimNonePair
                          ELSE SimBool(AtLeast(similarity, threshold_))
                 ELSE SimTypeError

\* truth value of what is_similar returned (a non-empty tuple is true)
Truthy(r) == r.b

-----------------------------------------------------------------------------
(* The worksheet *)

Letter == <<"A", "B", "C", "D", "E", "F", "G", "H", "I", "J", "K", "L", "M",
            "N", "O", "P", "Q", "R", "S", "T", "U", "V", "W", "X", "Y", "Z">>

Rows == 1..MaxRow

Cols == 1..MaxCol

NumCells == MaxRow * MaxCol

\* iter_rows: the k-th cell in row-major order
CellRow(k) == ((k - 1) \div MaxCol) + 1

CellCol(k) == ((k - 1) % MaxCol) + 1

CellValue(k) == sheet[CellRow(k)][CellCol(k)]

RECURSIVE ColumnLetter(_)
\* get_column_letter: bijective base 26, A = 1 .. Z = 26, AA = 27
ColumnLetter(c) ==
    IF c <= 26 THEN <<Letter[c]>>
    ELSE Append(ColumnLetter((c - 1) \div 26), Letter[((c - 1) % 26) + 1])

\* cell.coordinate
Coordinate(r, c) == ColumnLetter(c) \o IntToText(r)

CellCoordinate(k) == Coordinate(CellRow(k), CellCol(k))

Text_ab == <<"a", "b">>

Text_abc == <<"a", "b", "c">>

Text_sp_ab == <<" ", "a", "b">>

Text_c == <<"c">>

Text_date == <<"2", "0", "2", "0", "-", "0", "1", "-", "0", "1">>

Jan1 == PyDate(20200101)

Jan1Midnight == PyDatetime(20200101, 0)

NineOClock == PyTime(32400)

TenOClock == PyTime(36000)

\* the values a filled cell of the model holds
CellValues ==
    {PyStr(Text_ab), PyStr(Text_sp_ab), PyStr(Text_c),
     PyInt(3), PyFloat(314, 2), PyFloat(3142, 3), PyFloat(31, 1), PyFloat(304, 2),
     Jan1, Jan1Midnight, NineOClock, TenOClock}

\* the values a search target of the model is
TargetValues ==
    {PyStr(Text_ab), PyStr(Text_abc), PyStr(Text_date),
     PyInt(3), PyFloat(314, 2), PyFloat(31, 1),
     Jan1, Jan1Midnight, NineOClock, TenOClock, PyBytes(Text_ab)}

\* the sets of cells that hold a value: at most MaxFilled cells
FilledSets == {Q \in SUBSET (Rows \X Cols) : Cardinality(Q) <= MaxFilled}

\* the worksheet whose cells in P hold the values f and whose other cells are empty
SheetWith(P, f) ==
    [r \in Rows |-> [c \in Cols |-> IF <<r, c>> \in P THEN f[<<r, c>>] ELSE PyNone]]

\* sheet is a worksheet of the model
ChooseSheet == \E P \in FilledSets : \E f \in [P -> CellValues] : sheet = SheetWith(P, f)

\* threshold = 0.8, the default of is_similar and search_excl_val
DefaultThreshold == 80

Thresholds == {50, DefaultThreshold}

-----------------------------------------------------------------------------
(* search_excl_val *)

EmptyBucket == [Coordinate |-> <<>>, Value |-> <<>>]

Pending == [tag |-> "pending", Coordinate |-> <<>>, Value |-> <<>>]

FirstHit_target_value(k) ==
    [tag |-> "hit", Coordinate |-> <<CellCoordinate(k)>>, Value |-> <<search_targets[target_i]>>]

\* return cell.coordinate, cell.value
FirstHit(k) == [tag |-> "hit", Coordinate |-> <<CellCoordinate(k)>>, Value |-> <<CellValue(k)>>]

\* return {'Coordinate': ..., 'Value': ...}
Dict(coords, vals) == [tag |-> "dict", Coordinate |-> coords, Value |-> vals]

\* return equal_targets['Coordinate']
CoordinateList(coords) == [tag |-> "list", Coordinate |-> coords, Value |-> <<>>]

\* return (None, None)
NonePair == [tag |-> "(None, None)", Coordinate |-> <<>>, Value |-> <<>>]

\* the function ends without a return statement
ImplicitNone == [tag |-> "None", Coordinate |-> <<>>, Value |-> <<>>]

Raised(error) == [tag |-> error, Coordinate |-> <<>>, Value |-> <<>>]

search_type == search_targets[1].type

search_val_i == search_targets[target_i]

\* the loop variables after the current cell: next cell, or first cell of the
\* next target
NextCell ==
    IF cell_i < NumCells
    THEN target_i' = target_i /\ cell_i' = cell_i + 1
    ELSE target_i' = target_i + 1 /\ cell_i' = 1

\* numpy.round(v, decimals): an int is returned as it is; a float is scaled,
\* rounded half to even and scaled back
NpRound(v, decimals) ==
    IF v.type = "int" \/ decimals >= v.t THEN v
    ELSE LET unit == Pow10(v.t - decimals)
             a    == Abs(v.n)
             q    == a \div unit
             rem  == a % unit
             up   == 2 * rem > unit \/ (2 * rem = unit /\ q % 2 = 1)
             r    == IF up THEN q + 1 ELSE q
         IN  PyFloat(IF v.n < 0 THEN 0 - r ELSE r, decimals)

InBranchStr == search_type = "str"

InBranchNumber == ~InBranchStr /\ IsNumber(search_targets[1])

InBranchDate == ~InBranchStr /\ ~InBranchNumber /\ search_type \in {"date", "datetime"}

InBranchTime == ~InBranchStr /\ ~InBranchNumber /\ ~InBranchDate /\ search_type = "time"

AllVals_similar_first ==
    [tag |-> "dict",
     Coordinate |-> similar_target_hits.Coordinate \o equal_targets.Coordinate,
     Value |-> similar_target_hits.Value \o equal_targets.Value]

\* the combined result of return_all_vals
AllVals == Dict(equal_targets.Coordinate \o similar_target_hits.Coordinate,
                equal_targets.Value \o similar_target_hits.Value)

AppendCell(bucket, k) ==
    [Coordinate |-> Append(bucket.Coordinate, CellCoordinate(k)),
     Value      |-> Append(bucket.Value, CellValue(k))]

\* lines 216-226: the type checks before the scan
CheckTargets ==
    /\ pc = "call"
    /\ IF \A i \in 1..Len(search_targets) : IsInstance(search_targets[i], search_type)
       THEN /\ pc' = "scan"
            /\ result' = result
       ELSE /\ pc' = "done"
            /\ result' = Raised("TypeError")
    /\ equal_targets' = EmptyBucket
    /\ similar_target_hits' = EmptyBucket
    /\ target_i' = 1
    /\ cell_i' = 1
    /\ UNCHANGED <<sheet, search_targets, threshold, return_first_hit, return_all_vals,
                   cells_read, similarVars, number, extractVars>>

\* line 241: is_similar(search_val_i, str(cell_iii.value), threshold=threshold)
StrSimilar_unless_equal(v, tgt) ==
    ~PyEq(v, tgt) /\ Truthy(is_similar(tgt, TestOne(PyStr(ToStr(v))), threshold, FALSE))

StrSimilar(v, tgt) == Truthy(is_similar(tgt, TestOne(PyStr(ToStr(v))), threshold, FALSE))

\* the cell of the current iteration is skipped by the string branch (line 233)
SkippedByStr(v) ==
    v.type = "NoneType" \/ IsNumber(v) \/ IsInstance(v, "time") \/ IsInstance(v, "datetime")

\* lines 230-245: one iteration of the string branch
ScanStr ==
    /\ pc = "scan" /\ InBranchStr /\ target_i <= Len(search_targets)
    /\ cells_read' = cells_read + 1
    /\ LET v  == CellValue(cell_i)
           eq == PyEq(v, search_val_i)
       IN  IF SkippedByStr(v)
           THEN /\ NextCell
                /\ UNCHANGED <<pc, result, equal_targets, similar_target_hits>>
           ELSE IF eq /\ return_first_hit
           THEN /\ pc' = "done"
                /\ result' = FirstHit(cell_i)
                /\ UNCHANGED <<target_i, cell_i, equal_targets, similar_target_hits>>
           ELSE /\ equal_targets' =
                      IF eq THEN AppendCell(equal_targets, cell_i) ELSE equal_targets
                /\ similar_target_hits' =
                      IF StrSimilar(v, search_val_i)
                      THEN AppendCell(similar_target_hits, cell_i)
                      ELSE similar_target_hits
                /\ NextCell
                /\ UNCHANGED <<pc, result>>
    /\ UNCHANGED <<sheet, search_targets, threshold, return_first_hit, return_all_vals,
                   similarVars, number, extractVars>>

\* lines 246-251: the result of the string branch
ReturnStr ==
    /\ pc = "scan" /\ InBranchStr /\ target_i > Len(search_targets)
    /\ pc' = "done"
    /\ result' = IF return_all_vals THEN AllVals
                 ELSE IF equal_targets.Coordinate # <<>>
                      THEN Dict(equal_targets.Coordinate, equal_targets.Value)
                      ELSE NonePair
    /\ UNCHANGED <<sheet, threshold, searchVars, similarVars, number, extractVars>>

\* lines 257-270: one iteration of the number branch
ScanNumber ==
    /\ pc = "scan" /\ InBranchNumber /\ target_i <= Len(search_targets)
    /\ cells_read' = cells_read + 1
    /\ LET v               == CellValue(cell_i)
           round_of_number == count_significant_digits(ToStr(search_val_i))
           eq              == PyEq(NpRound(v, round_of_number),
                                   NpRound(search_val_i, round_of_number))
       IN  IF ~IsNumber(v)
           THEN /\ NextCell
                /\ UNCHANGED <<pc, result, equal_targets, similar_target_hits>>
           ELSE IF eq /\ return_first_hit
           THEN /\ pc' = "done"
                /\ result' = FirstHit(cell_i)
                /\ UNCHANGED <<target_i, cell_i, equal_targets, similar_target_hits>>
           ELSE /\ equal_targets' =
                      IF eq THEN AppendCell(equal_targets, cell_i) ELSE equal_targets
                /\ similar_target_hits' =
                      IF eq THEN similar_target_hits
                      ELSE AppendCell(similar_target_hits, cell_i)
                /\ NextCell
                /\ UNCHANGED <<pc, result>>
    /\ UNCHANGED <<sheet, search_targets, threshold, return_first_hit, return_all_vals,
                   similarVars, number, extractVars>>

\* lines 272-278: the result of the number branch
ReturnNumber ==
    /\ pc = "scan" /\ InBranchNumber /\ target_i > Len(search_targets)
    /\ pc' = "done"
    /\ result' = IF return_all_vals THEN AllVals
                 ELSE IF equal_targets.Value # <<>>
                      THEN CoordinateList(equal_targets.Coordinate)
                      ELSE NonePair
    /\ UNCHANGED <<sheet, threshold, searchVars, similarVars, number, extractVars>>

\* lines 283-295: one iteration of the date / datetime branch
ScanDate ==
    /\ pc = "scan" /\ InBranchDate /\ target_i <= Len(search_targets)
    /\ cells_read' = cells_read + 1
    /\ LET v  == CellValue(cell_i)
           eq == PyEq(v, search_val_i)
       IN  IF ~IsInstance(v, "datetime") /\ ~IsInstance(v, "date")
           THEN /\ NextCell
                /\ UNCHANGED <<pc, result, equal_targets, similar_target_hits>>
           ELSE IF eq /\ return_first_hit
           THEN /\ pc' = "done"
                /\ result' = FirstHit(cell_i)
                /\ UNCHANGED <<target_i, cell_i, equal_targets, similar_target_hits>>
           ELSE /\ equal_targets' =
                      IF eq THEN AppendCell(equal_targets, cell_i) ELSE equal_targets
                /\ similar_target_hits' =
                      IF eq THEN similar_target_hits
                      ELSE AppendCell(similar_target_hits, cell_i)
                /\ NextCell
                /\ UNCHANGED <<pc, result>>
    /\ UNCHANGED <<sheet, search_targets, threshold, return_first_hit, return_all_vals,
                   similarVars, number, extractVars>>

\* lines 297-303: the result of the date / datetime branch
ReturnDate ==
    /\ pc = "scan" /\ InBranchDate /\ target_i > Len(search_targets)
    /\ pc' = "done"
    /\ result' = IF return_all_vals THEN AllVals
                 ELSE IF equal_targets.Value # <<>>
                      THEN Dict(equal_targets.Coordinate, equal_targets.Value)
                      ELSE NonePair
    /\ UNCHANGED <<sheet, threshold, searchVars, similarVars, number, extractVars>>

\* lines 306-318: one iteration of the time branch
ScanTime ==
    /\ pc = "scan" /\ InBranchTime /\ target_i <= Len(search_targets)
    /\ cells_read' = cells_read + 1
    /\ LET v  == CellValue(cell_i)
           eq == PyEq(v, search_val_i)
       IN  IF ~IsInstance(v, "time")
           THEN /\ NextCell
                /\ UNCHANGED <<pc, result, equal_targets, similar_target_hits>>
           ELSE IF eq /\ return_first_hit
           THEN /\ pc' = "done"
                /\ result' = FirstHit(cell_i)
                /\ UNCHANGED <<target_i, cell_i, equal_targets, similar_target_hits>>
           ELSE /\ equal_targets' =
                      IF eq THEN AppendCell(equal_targets, cell_i) ELSE equal_targets
                /\ similar_target_hits' =
                      IF eq THEN similar_target_hits
                      ELSE AppendCell(similar_target_hits, cell_i)
                /\ NextCell
                /\ UNCHANGED <<pc, result>>
    /\ UNCHANGED <<sheet, search_targets, threshold, return_first_hit, return_all_vals,
                   similarVars, number, extractVars>>

\* lines 319-323: the result of the time branch; with no equal hit and
\* return_all_vals false neither return statement is reached
ReturnTime ==
    /\ pc = "scan" /\ InBranchTime /\ target_i > Len(search_targets)
    /\ pc' = "done"
    /\ result' = IF equal_targets.Value # <<>> /\ ~return_all_vals
                 THEN Dict(equal_targets.Coordinate, equal_targets.Value)
                 ELSE IF return_all_vals THEN AllVals
                      ELSE ImplicitNone
    /\ UNCHANGED <<sheet, threshold, searchVars, similarVars, number, extractVars>>

\* lines 325-326: no branch for the type of the targets
RaiseUnknownType ==
    /\ pc = "scan"
    /\ ~InBranchStr /\ ~InBranchNumber /\ ~InBranchDate /\ ~InBranchTime
    /\ pc' = "done"
    /\ result' = Raised("ValueError")
    /\ UNCHANGED <<sheet, threshold, searchVars, similarVars, number, extractVars>>

IdleSimilar ==
    /\ target = PyNone
    /\ test = TestList(<<>>)
    /\ return_similarrity_score = FALSE

IdleSearch ==
    /\ search_targets = <<>>
    /\ return_first_hit = TRUE
    /\ return_all_vals = FALSE
    /\ target_i = 1
    /\ cell_i = 1
    /\ equal_targets = EmptyBucket
    /\ similar_target_hits = EmptyBucket
    /\ cells_read = 0

IdleExtract ==
    /\ start_Cord = <<>>
    /\ end_Cord = <<>>

InitSearch ==
    /\ ChooseSheet
    /\ \E k \in 1..MaxTargets : search_targets \in [1..k -> TargetValues]
    /\ threshold \in (IF search_targets[1].type = "str" THEN Thresholds
                      ELSE {DefaultThreshold})
    /\ return_first_hit \in BOOLEAN
    /\ return_all_vals \in BOOLEAN
    /\ pc = "call"
    /\ target_i = 1
    /\ cell_i = 1
    /\ equal_targets = EmptyBucket
    /\ similar_target_hits = EmptyBucket
    /\ cells_read = 0
    /\ result = Pending
    /\ number = <<>>
    /\ IdleSimilar
    /\ IdleExtract

NextSearch ==
    \/ CheckTargets
    \/ ScanStr
    \/ ReturnStr
    \/ ScanNumber
    \/ ReturnNumber
    \/ ScanDate
    \/ ReturnDate
    \/ ScanTime
    \/ ReturnTime
    \/ RaiseUnknownType

SpecSearch == InitSearch /\ [][NextSearch]_vars

-----------------------------------------------------------------------------
(* count_significant_digits as an operation *)

NumberChars == {"-", ".", "0", "1", "2", "3"}

\* float(number_str) succeeds: [-]digits[.[digits]] or [-].digits
IsNumeric(s) ==
    LET neg    == Len(s) > 0 /\ s[1] = "-"
        body   == IF neg THEN SubSeq(s, 2, Len(s)) ELSE s
        dots   == {i \in 1..Len(body) : body[i] = "."}
    IN  /\ \A i \in 1..Len(body) : IsDigit(body[i]) \/ body[i] = "."
        /\ Cardinality(dots) <= 1
        /\ \E i \in 1..Len(body) : IsDigit(body[i])

IntResult(k) == [tag |-> "int", value |-> k]

CountPending == [tag |-> "pending", value |-> 0]

CountRaised == [tag |-> "ValueError", value |-> 0]

\* lines 172-193 for a numeric string
CountDigits ==
    /\ pc = "call"
    /\ IsNumeric(number)
    /\ pc' = "done"
    /\ result' = IntResult(count_significant_digits(number))
    /\ UNCHANGED <<sheet, threshold, searchVars, similarVars, number, extractVars>>

\* line 179: float(number_str) raises ValueError
CountDigitsRaises ==
    /\ pc = "call"
    /\ ~IsNumeric(number)
    /\ pc' = "done"
    /\ result' = CountRaised
    /\ UNCHANGED <<sheet, threshold, searchVars, similarVars, number, extractVars>>

EmptySheet == [r \in Rows |-> [c \in Cols |-> PyNone]]

InitCount ==
    /\ \E k \in 1..MaxNumberLen : number \in [1..k -> NumberChars]
    /\ pc = "call"
    /\ result = CountPending
    /\ sheet = EmptySheet
    /\ threshold = DefaultThreshold
    /\ IdleSearch
    /\ IdleSimilar
    /\ IdleExtract

NextCount == CountDigits \/ CountDigitsRaises

SpecCount == InitCount /\ [][NextCount]_vars

-----------------------------------------------------------------------------
(* is_similar as an operation *)

Text_apple == <<"a", "p", "p", "l", "e">>

Text_appel == <<"a", "p", "p", "e", "l">>

Text_banana == <<"b", "a", "n", "a", "n", "a">>

SimTargets == {PyStr(Text_apple), PyStr(Text_ab), PyInt(3)}

SimCandidates == {PyStr(Text_apple), PyStr(Text_appel), PyStr(Text_banana),
                  PyStr(Text_sp_ab), PyStr(Text_abc), PyInt(3)}

SimThresholds == {50, 75, DefaultThreshold, 101}

SimPending == [tag |-> "pending", b |-> FALSE, strs |-> <<>>, scores |-> <<>>]

\* lines 107-152: the call returns
IsSimilarReturns ==
    /\ pc = "call"
    /\ is_similar(target, test, threshold, return_similarrity_score) # SimTypeError
    /\ pc' = "done"
    /\ result' = is_similar(target, test, threshold, return_similarrity_score)
    /\ UNCHANGED <<sheet, threshold, searchVars, similarVars, number, extractVars>>

\* line 125: test is neither a list, a str nor a number (a tuple is none of them)
IsSimilarRaises ==
    /\ pc = "call"
    /\ is_similar(target, test, threshold, return_similarrity_score) = SimTypeError
    /\ pc' = "done"
    /\ result' = SimTypeError
    /\ UNCHANGED <<sheet, threshold, searchVars, similarVars, number, extractVars>>

InitSimilar ==
    /\ target \in SimTargets
    /\ \/ \E k \in 0..MaxTest : \E items \in [1..k -> SimCandidates] : test = TestList(items)
       \/ \E k \in 0..MaxTest : \E items \in [1..k -> SimCandidates] : test = TestTuple(items)
       \/ \E v \in SimCandidates \cup {Jan1} : test = TestOne(v)
    /\ threshold \in SimThresholds
    /\ return_similarrity_score \in BOOLEAN
    /\ pc = "call"
    /\ result = SimPending
    /\ sheet = EmptySheet
    /\ number = <<>>
    /\ IdleSearch
    /\ IdleExtract

NextSimilar == IsSimilarReturns \/ IsSimilarRaises

SpecSimilar == InitSimilar /\ [][NextSimilar]_vars

-----------------------------------------------------------------------------
(* exc_coord_to_rc and get_excl_sheet_vals *)

\* a corner argument: a coordinate str, a tuple (row, column) or a list
CornerStr(s) == [type |-> "str", s |-> s, rc |-> <<0, 0>>]

CornerTuple(r, c) == [type |-> "tuple", s |-> <<>>, rc |-> <<r, c>>]

CornerList(r, c) == [type |-> "list", s |-> <<>>, rc |-> <<r, c>>]

Corners ==
    {CornerStr(Coordinate(r, c)) : r \in Rows, c \in Cols}
    \cup {CornerTuple(r, c) : r \in Rows, c \in Cols}
    \cup {CornerStr(<<>>), CornerList(1, 1)}

LetterValue(c) == CHOOSE i \in 1..26 : Letter[i] = c

RECURSIVE ColumnIndex(_)
\* column_index_from_string: A = 1 .. Z = 26, AA = 27
ColumnIndex(letters) ==
    IF letters = <<>> THEN 0
    ELSE 26 * ColumnIndex(SubSeq(letters, 1, Len(letters) - 1)) + LetterValue(letters[Len(letters)])

\* exc_coord_to_rc(cell_Coord) for a letters+digits coordinate: <<row, col>>
exc_coord_to_rc(cell_Coord) ==
    LET split == CHOOSE i \in 0..Len(cell_Coord) :
                     /\ \A j \in 1..i : ~IsDigit(cell_Coord[j])
                     /\ \A j \in (i + 1)..Len(cell_Coord) : IsDigit(cell_Coord[j])
    IN  <<TextToInt(SubSeq(cell_Coord, split + 1, Len(cell_Coord))),
          ColumnIndex(SubSeq(cell_Coord, 1, split))>>

\* the error a corner argument raises, "" when it raises none (lines 32-33
\* for the empty str, lines 348-349 and 357-358 for another type)
CornerError(corner) ==
    IF corner.type = "str" THEN (IF corner.s = <<>> THEN "ValueError" ELSE "")
    ELSE IF corner.type = "tuple" THEN ""
    ELSE "TypeError"

\* lines 343-347: <<row, col>> of a corner argument
CornerRC(corner) == IF corner.type = "str" THEN exc_coord_to_rc(corner.s) ELSE corner.rc

\* numpy.array(values): the common dtype of a list of values, and the values
\* converted to it (any value that is no str or number makes it object, which
\* converts nothing; a str makes the numbers strings; a float makes ints floats)
DType(values) ==
    IF \E i \in 1..Len(values) : values[i].type \notin {"str", "int", "float"} THEN "object"
    ELSE IF \E i \in 1..Len(values) : values[i].type = "str" THEN "str"
    ELSE IF \E i \in 1..Len(values) : values[i].type = "float" THEN "float"
    ELSE "int"

AsType(v, dtype) ==
    IF dtype = "str" /\ v.type # "str" THEN PyStr(ToStr(v))
    ELSE IF dtype = "float" /\ v.type = "int" THEN PyFloat(v.n, 0)
    ELSE v

NpArray(values) == [i \in 1..Len(values) |-> AsType(values[i], DType(values))]

RECURSIVE Flatten(_)
Flatten(rows) == IF rows = <<>> THEN <<>> ELSE Head(rows) \o Flatten(Tail(rows))

NdArray(shape, data) == [tag |-> "ndarray", shape |-> shape, data |-> data]

ExtractPending == [tag |-> "pending", shape |-> <<>>, data |-> <<>>]

ExtractRaised(error) == [tag |-> error, shape |-> <<>>, data |-> <<>>]

\* lines 360-378 with the rows row_lo .. row_hi and the columns col_lo .. col_hi:
\* one array per row, the array of these, flattened when flat
ExtractRows(row_lo, row_hi, col_lo, col_hi, flat) ==
    LET nrows == Max(row_hi - row_lo + 1, 0)
        ncols == col_hi - col_lo + 1
        values_extracted ==
            [i \in 1..nrows |->
                NpArray([j \in 1..ncols |-> sheet[row_lo + i - 1][col_lo + j - 1]])]
        data == NpArray(Flatten(values_extracted))
    IN  IF flat \/ nrows = 0 THEN NdArray(<<Len(data)>>, data)
        ELSE NdArray(<<nrows, ncols>>, data)

\* get_excl_sheet_vals for corners that raise nothing: range(row_start, row_end)
\* ends before row_end, range(col_start, col_end + 1) includes col_end
get_excl_sheet_vals(start, end) ==
    LET s         == CornerRC(start)
        e         == CornerRC(end)
        row_start == Min(s[1], e[1])
        row_end   == Max(s[1], e[1])
        col_start == Min(s[2], e[2])
        col_end   == Max(s[2], e[2])
    IN  ExtractRows(row_start, row_end - 1, col_start, col_end,
                    row_start = row_end \/ col_start = col_end)

\* lines 343-378: the call returns the extracted array
ExtractValues ==
    /\ pc = "call"
    /\ CornerError(start_Cord) = "" /\ CornerError(end_Cord) = ""
    /\ pc' = "done"
    /\ result' = get_excl_sheet_vals(start_Cord, end_Cord)
    /\ UNCHANGED <<sheet, threshold, searchVars, similarVars, number, extractVars>>

\* lines 343-358: a corner argument raises
ExtractRaises ==
    /\ pc = "call"
    /\ CornerError(start_Cord) # "" \/ CornerError(end_Cord) # ""
    /\ pc' = "done"
    /\ result' = ExtractRaised(IF CornerError(start_Cord) # ""
                               THEN CornerError(start_Cord)
                               ELSE CornerError(end_Cord))
    /\ UNCHANGED <<sheet, threshold, searchVars, similarVars, number, extractVars>>

InitExtract ==
    /\ ChooseSheet
    /\ start_Cord \in Corners
    /\ end_Cord \in Corners
    /\ pc = "call"
    /\ result = ExtractPending
    /\ threshold = DefaultThreshold
    /\ number = <<>>
    /\ IdleSearch
    /\ IdleSimilar

NextExtract == ExtractValues \/ ExtractRaises

SpecExtract == InitExtract /\ [][NextExtract]_vars

-----------------------------------------------------------------------------
(* Reference definitions for the properties of search_excl_val: the scan as *)
(* a sequence of positions, target by target, each target over the cells in *)
(* row-major order                                                          *)

ScanLen == Len(search_targets) * NumCells

TargetAt(p) == search_targets[((p - 1) \div NumCells) + 1]

ValueAt(p) == sheet[(((p - 1) % NumCells) \div MaxCol) + 1][(((p - 1) % NumCells) % MaxCol) + 1]

CoordinateAt(p) ==
    Coordinate((((p - 1) % NumCells) \div MaxCol) + 1, (((p - 1) % NumCells) % MaxCol) + 1)

Scanned == result.tag \in {"hit", "dict", "list", "(None, None)", "None"}

\* decimal places numpy.round is called with for a target
RoundingOf(tgt) == count_significant_digits(ToStr(tgt))

\* the cell at p is an equal hit of the branch the targets select
RefEqual(p) ==
    LET v == ValueAt(p)
        t == TargetAt(p)
    IN  CASE search_type = "str" -> v.type = "str" /\ v.s = t.s
          [] search_type \in {"int", "float"} ->
                 /\ v.type \in {"int", "float"}
                 /\ PyEq(NpRound(v, RoundingOf(t)), NpRound(t, RoundingOf(t)))
          [] search_type \in {"date", "datetime"} ->
                 v.type \in {"date", "datetime"} /\ v.type = t.type /\ v.n = t.n /\ v.t = t.t
          [] search_type = "time" -> v.type = "time" /\ v.t = t.t
          [] OTHER -> FALSE

\* the cell at p is exactly equal to the target at p (Python ==)
ExactEqual(p) ==
    LET v == ValueAt(p)
        t == TargetAt(p)
    IN  CASE search_type = "str" -> v.type = "str" /\ v.s = t.s
          [] search_type \in {"int", "float"} ->
                 v.type \in {"int", "float"} /\ NumEq(v.n, v.t, t.n, t.t)
          [] search_type \in {"date", "datetime"} ->
                 v.type \in {"date", "datetime"} /\ v.type = t.type /\ v.n = t.n /\ v.t = t.t
          [] search_type = "time" -> v.type = "time" /\ v.t = t.t
          [] OTHER -> FALSE

\* the cell at p is a similar hit of the branch the targets select
RefSimilar(p) ==
    LET v == ValueAt(p)
        t == TargetAt(p)
        r == ratio(Strip(ToStr(t)), Strip(ToStr(v)))
    IN  CASE search_type = "str" ->
                 v.type \in {"str", "date"} /\ r[1] * 100 >= threshold * r[2]
          [] search_type \in {"int", "float"} -> v.type \in {"int", "float"} /\ ~RefEqual(p)
          [] search_type \in {"date", "datetime"} ->
                 v.type \in {"date", "datetime"} /\ ~RefEqual(p)
          [] search_type = "time" -> v.type = "time" /\ ~RefEqual(p)
          [] OTHER -> FALSE

RECURSIVE PositionsFrom(_, _, _)
\* the positions p .. last that satisfy flags, in scan order
PositionsFrom(flags, p, last) ==
    IF p > last THEN <<>>
    ELSE (IF flags[p] THEN <<p>> ELSE <<>>) \o PositionsFrom(flags, p + 1, last)

EqualPositions == PositionsFrom([p \in 1..ScanLen |-> RefEqual(p)], 1, ScanLen)

SimilarPositions == PositionsFrom([p \in 1..ScanLen |-> RefSimilar(p)], 1, ScanLen)

CoordinatesOf(positions) == [i \in 1..Len(positions) |-> CoordinateAt(positions[i])]

ValuesOf(positions) == [i \in 1..Len(positions) |-> ValueAt(positions[i])]

\* the value-kind of a target
Kind(v) ==
    CASE v.type = "str" -> "string"
      [] v.type \in {"int", "float"} -> "number"
      [] OTHER -> v.type

-----------------------------------------------------------------------------
(* Properties *)

\* C1 as stated: with return_first_hit the call returns the coordinate and value
\* of the first cell in scan order that is exactly equal to its target, having
\* read no cell after it; it makes a first-hit return only for such a cell.
C1_FirstExactEqualCell ==
    (pc = "done" /\ return_first_hit /\ Scanned) =>
        LET exact == {p \in 1..ScanLen : ExactEqual(p)}
        IN  IF exact = {}
            THEN result.tag # "hit"
            ELSE LET first == CHOOSE p \in exact : \A q \in exact : p <= q
                 IN  /\ result.tag = "hit"
                     /\ result.Coordinate = <<CoordinateAt(first)>>
                     /\ result.Value = <<ValueAt(first)>>
                     /\ cells_read = first

\* C1 amended: with return_first_hit the call returns the coordinate and value of
\* the first cell in scan order (targets in order, cells row-major) that is an
\* equal hit of its target, having read no cell after it; for a number target an
\* equal hit is a numeric cell equal to the target after both are rounded to
\* count_significant_digits(str(target)) decimal places, for the other kinds a
\* cell equal to the target.
C1_FirstEqualHit ==
    (pc = "done" /\ return_first_hit /\ Scanned) =>
        LET hits == {p \in 1..ScanLen : RefEqual(p)}
        IN  IF hits = {}
            THEN result.tag # "hit" /\ cells_read = ScanLen
            ELSE LET first == CHOOSE p \in hits : \A q \in hits : p <= q
                 IN  /\ result.tag = "hit"
                     /\ result.Coordinate = <<CoordinateAt(first)>>
                     /\ result.Value = <<ValueAt(first)>>
                     /\ cells_read = first

\* a first-hit return at the second target, before the last cell, with a later
\* equal hit left unread
C1_Witness ==
    /\ pc = "done" /\ return_first_hit /\ result.tag = "hit"
    /\ cells_read > NumCells /\ cells_read < ScanLen
    /\ \E p \in (cells_read + 1)..ScanLen : RefEqual(p)

\* C2: with return_all_vals and no first-hit return the result lists the equal
\* hits, in scan order, followed by the similar hits, in scan order, and its
\* coordinate list and value list are parallel.
C2_EqualThenSimilar ==
    (pc = "done" /\ return_all_vals /\ Scanned /\ result.tag # "hit") =>
        /\ result.tag = "dict"
        /\ result.Coordinate = CoordinatesOf(EqualPositions) \o CoordinatesOf(SimilarPositions)
        /\ result.Value = ValuesOf(EqualPositions) \o ValuesOf(SimilarPositions)
        /\ Len(result.Coordinate) = Len(result.Value)

\* both buckets are filled and the first similar hit was found before the first
\* equal hit
C2_Witness ==
    /\ pc = "done" /\ return_all_vals /\ result.tag = "dict"
    /\ EqualPositions # <<>> /\ SimilarPositions # <<>>
    /\ SimilarPositions[1] < EqualPositions[1]
    /\ Len(result.Coordinate) >= 3

\* C3 as stated: with return_all_vals false and no first-hit return the result
\* is the equal bucket, coordinates with their values, when a cell is an equal
\* hit, and (None, None) when none is; for every kind of target.
C3_EqualBucketOrNonePair ==
    (pc = "done" /\ ~return_all_vals /\ Scanned /\ result.tag # "hit") =>
        IF EqualPositions # <<>>
        THEN /\ result.tag = "dict"
             /\ result.Coordinate = CoordinatesOf(EqualPositions)
             /\ result.Value = ValuesOf(EqualPositions)
        ELSE result.tag = "(None, None)"

\* C4 as stated: a target set of more than one value-kind is rejected with a
\* TypeError and no cell is read for it.
C4_MixedKindsRejected ==
    (\E i, j \in 1..Len(search_targets) : Kind(search_targets[i]) # Kind(search_targets[j])) =>
        /\ cells_read = 0
        /\ pc = "done" => result.tag = "TypeError"

\* the number of digits after the decimal point of a number literal
DecimalPlaces(text) ==
    IF Contains(text, ".")
    THEN Len(text) - (CHOOSE i \in 1..Len(text) : text[i] = ".")
    ELSE 0

\* C5 as stated: for a number target the equal bucket is the numeric cells equal
\* to the target after both are rounded to the decimal places of the target
\* literal, the similar bucket the other numeric cells.
C5_RoundToLiteralPlaces ==
    (pc = "done" /\ ~return_first_hit /\ Scanned /\ search_type \in {"int", "float"}) =>
        LET Eq(p) == LET d == DecimalPlaces(ToStr(TargetAt(p)))
                     IN  /\ IsNumber(ValueAt(p))
                         /\ PyEq(NpRound(ValueAt(p), d), NpRound(TargetAt(p), d))
            eqs   == PositionsFrom([p \in 1..ScanLen |-> Eq(p)], 1, ScanLen)
            sims  == PositionsFrom([p \in 1..ScanLen |-> IsNumber(ValueAt(p)) /\ ~Eq(p)],
                                   1, ScanLen)
        IN  /\ equal_targets.Coordinate = CoordinatesOf(eqs)
            /\ similar_target_hits.Coordinate = CoordinatesOf(sims)

\* significant digits of a numeric string: its digits without the sign, the
\* point and the leading zeros
SignificantDigits(text) == Len(LStrip(Remove(Remove(text, "-"), "."), "0"))

\* C6 as stated: count_significant_digits returns the number of significant
\* digits of a numeric string (of a value other than zero): sign and leading
\* zeros not counted, trailing zeros counted.
C6_CountsSignificantDigits ==
    (pc = "done" /\ result.tag = "int" /\ SignificantDigits(number) > 0) =>
        result.value = SignificantDigits(number)

\* C7 as stated: get_excl_sheet_vals returns the cells of the rectangle spanned
\* by the corners, both corner rows and both corner columns included, row-major,
\* whatever the order of the corners.
C7_WholeRectangle ==
    (pc = "done" /\ result.tag = "ndarray") =>
        LET s == CornerRC(start_Cord)
            e == CornerRC(end_Cord)
        IN  result = ExtractRows(Min(s[1], e[1]), Max(s[1], e[1]),
                                 Min(s[2], e[2]), Max(s[2], e[2]),
                                 s[1] = e[1] \/ s[2] = e[2])

\* C8 as stated: for string targets neither bucket ever holds a cell whose value
\* is no text.
C8_OnlyTextCells ==
    (pc \in {"scan", "done"} /\ search_type = "str") =>
        /\ \A i \in 1..Len(equal_targets.Value) : equal_targets.Value[i].type = "str"
        /\ \A i \in 1..Len(similar_target_hits.Value) :
               similar_target_hits.Value[i].type = "str"

RECURSIVE QualifyingFrom(_, _, _, _)
\* the candidates i .. of items, as stripped strings, whose ratio to tgt is at
\* least thr hundredths, in order
QualifyingFrom(items, i, tgt, thr) ==
    IF i > Len(items) THEN <<>>
    ELSE LET c == Strip(ToStr(items[i]))
             r == ratio(tgt, c)
         IN  (IF r[1] * 100 >= thr * r[2] THEN <<c>> ELSE <<>>)
             \o QualifyingFrom(items, i + 1, tgt, thr)

C10_EqualPriority ==
    (pc = "done" /\ search_type = "str" /\ Scanned) =>
        /\ ~return_all_vals =>
               /\ \A i \in 1..Len(result.Value) :
                      \E t \in 1..Len(search_targets) :
                          result.Value[i].type = "str" /\ result.Value[i].s = search_targets[t].s
               /\ result.tag = "dict" => result.Coordinate = CoordinatesOf(EqualPositions)
        /\ (return_all_vals /\ result.tag = "dict") =>
               \A p \in 1..ScanLen :
                   (RefEqual(p) /\ threshold <= 100) =>
                       /\ \E i \in 1..Len(EqualPositions) :
                              result.Coordinate[i] = CoordinateAt(p)
                       /\ \E i \in (Len(EqualPositions) + 1)..Len(result.Coordinate) :
                              result.Coordinate[i] = CoordinateAt(p)
        /\ Len(result.Coordinate) > Len(EqualPositions) => return_all_vals

\* a cell equal to a string target is returned as an equal and as a similar hit
C10_Witness ==
    /\ pc = "done" /\ search_type = "str" /\ return_all_vals /\ result.tag = "dict"
    /\ EqualPositions # <<>>
    /\ \E i \in (Len(EqualPositions) + 1)..Len(result.Coordinate) :
           result.Coordinate[i] = result.Coordinate[1] /\ result.Value[i] = result.Value[1]

=============================================================================
